---- MODULE Spec2Model ----
(***************************************************************************)
(* Model of the CH9329 serial protocol engine (ender::CH9329Controller):   *)
(* the frame codec (make_frame, validate_response), the command dispatcher *)
(* (send_command, read_response) over a serial byte stream, the command     *)
(* catalog built on it, the gestures that call its mouse operations in     *)
(* sequence, and the coordinate mapper (convert_screen_to_absolute).       *)
(*                                                                         *)
(* Bytes are naturals in 0..255; a std::vector<uint8_t> is a sequence of   *)
(* bytes (1-based here, 0-based in the source); a std::optional is a       *)
(* record [has, val].                                                      *)
(***************************************************************************)
EXTENDS Integers, Sequences, FiniteSets, TLC

\* ------------------------------------------------------------------------
\* Protocol constants
\* ------------------------------------------------------------------------
FRAME_HEAD_1 == 87

FRAME_HEAD_2 == 171

DEVICE_ADDR == 0

\* uint8_t truncation: static_cast<uint8_t>(n)
U8(n) == n % 256

\* std::nullopt and a present optional
Nullopt == [has |-> FALSE, val |-> <<>>]

Some(v) == [has |-> TRUE, val |-> v]

\* ------------------------------------------------------------------------
\* Frame codec
\* ------------------------------------------------------------------------
\* The int sum of s[lo..hi], by halving the range (int addition is associative
\* and cannot overflow here, so the order std::accumulate adds in is immaterial).
RECURSIVE RangeSum(_, _, _)
RangeSum(s, lo, hi) ==
    IF lo > hi THEN 0
    ELSE IF lo = hi THEN s[lo]
    ELSE LET mid == (lo + hi) \div 2
         IN  RangeSum(s, lo, mid) + RangeSum(s, mid + 1, hi)

\* std::accumulate(first, first + n, 0): the int sum of the first n bytes
accumulate(s, n) == RangeSum(s, 1, n)

\* A make_frame whose checksum leaves the two header bytes out of the sum.
make_frame_SumSkipsHeader(addr, cmd, data) ==
    LET frame == <<FRAME_HEAD_1, FRAME_HEAD_2, addr, cmd, U8(Len(data))>> \o data
    IN  Append(frame, U8(accumulate(frame, Len(frame)) - FRAME_HEAD_1 - FRAME_HEAD_2 + 512))

\* CH9329Controller::make_frame
make_frame(addr, cmd, data) ==
    LET frame == <<FRAME_HEAD_1, FRAME_HEAD_2, addr, cmd, U8(Len(data))>> \o data
        sum   == U8(accumulate(frame, Len(frame)))
    IN  Append(frame, sum)

\* A validate_response that compares the whole command byte.
validate_response_FullCmdByte(resp, expected_cmd) ==
    IF Len(resp) < 6 THEN Nullopt
    ELSE IF resp[1] # FRAME_HEAD_1 \/ resp[2] # FRAME_HEAD_2 THEN Nullopt
    ELSE IF resp[3] # DEVICE_ADDR THEN Nullopt
    ELSE IF resp[4] # expected_cmd THEN Nullopt
    ELSE IF Len(resp) # 6 + resp[5] THEN Nullopt
    ELSE IF resp[Len(resp)] # U8(accumulate(resp, Len(resp) - 1)) THEN Nullopt
    ELSE Some(SubSeq(resp, 6, Len(resp) - 1))

\* A validate_response without the checksum comparison.
validate_response_NoChecksum(resp, expected_cmd) ==
    IF Len(resp) < 6 THEN Nullopt
    ELSE IF resp[1] # FRAME_HEAD_1 \/ resp[2] # FRAME_HEAD_2 THEN Nullopt
    ELSE IF resp[3] # DEVICE_ADDR THEN Nullopt
    ELSE IF (resp[4] % 64) # expected_cmd THEN Nullopt
    ELSE IF Len(resp) # 6 + resp[5] THEN Nullopt
    ELSE Some(SubSeq(resp, 6, Len(resp) - 1))

\* A validate_response that returns the payload from the length byte on.
validate_response_SliceFromLen(resp, expected_cmd) ==
    IF Len(resp) < 6 THEN Nullopt
    ELSE IF resp[1] # FRAME_HEAD_1 \/ resp[2] # FRAME_HEAD_2 THEN Nullopt
    ELSE IF resp[3] # DEVICE_ADDR THEN Nullopt
    ELSE IF (resp[4] % 64) # expected_cmd THEN Nullopt
    ELSE IF Len(resp) # 6 + resp[5] THEN Nullopt
    ELSE IF resp[Len(resp)] # U8(accumulate(resp, Len(resp) - 1)) THEN Nullopt
    ELSE Some(SubSeq(resp, 5, Len(resp) - 1))

\* A validate_response that answers a short response with an empty payload.
validate_response_ShortIsEmpty(resp, expected_cmd) ==
    IF Len(resp) < 6 THEN Some(<<>>)
    ELSE IF resp[1] # FRAME_HEAD_1 \/ resp[2] # FRAME_HEAD_2 THEN Nullopt
    ELSE IF resp[3] # DEVICE_ADDR THEN Nullopt
    ELSE IF (resp[4] % 64) # expected_cmd THEN Nullopt
    ELSE IF Len(resp) # 6 + resp[5] THEN Nullopt
    ELSE IF resp[Len(resp)] # U8(accumulate(resp, Len(resp) - 1)) THEN Nullopt
    ELSE Some(SubSeq(resp, 6, Len(resp) - 1))

\* CH9329Controller::validate_response
validate_response(resp, expected_cmd) ==
    IF Len(resp) < 6 THEN Nullopt
    ELSE IF resp[1] # FRAME_HEAD_1 \/ resp[2] # FRAME_HEAD_2 THEN Nullopt
    ELSE IF resp[3] # DEVICE_ADDR THEN Nullopt
    ELSE IF (resp[4] % 64) # expected_cmd THEN Nullopt          \* rcv_cmd & 0x3F
    ELSE IF Len(resp) # 6 + resp[5] THEN Nullopt
    ELSE IF resp[Len(resp)] # U8(accumulate(resp, Len(resp) - 1)) THEN Nullopt
    ELSE Some(SubSeq(resp, 6, Len(resp) - 1))

\* ------------------------------------------------------------------------
\* Bounded inputs of the codec
\* ------------------------------------------------------------------------
\* Longest payload enumerated exhaustively over ByteVals.
MaxLen == 2

\* Representative byte values: zero, one, a header byte, the top value.
ByteVals == {0, 1, 87, 255}

\* The long payloads: the largest length of the round-trip property, and the
\* first length whose size no longer fits the length byte.
LongLens == {249, 256}

\* A long payload with varying content: byte i is (7 * i) mod 256.
Pattern(n) == [i \in 1..n |-> U8(7 * i)]

SeqsUpTo(S, n) == UNION {[1..k -> S] : k \in 0..n}

Payloads == SeqsUpTo(ByteVals, MaxLen) \cup {Pattern(n) : n \in LongLens}

\* Addresses and command bytes handed to make_frame, and expected commands
\* handed to validate_response. Command bytes cover every value of the upper
\* two bits.
Addrs == {0, 1}

CmdBytes == {1, 63, 65, 127, 129, 130, 193, 255}

ExpectedCmds == {1, 63}

\* The values a single byte is changed to: always different from the old one.
MutDeltas == {1, 64, 128, 255}

\* ------------------------------------------------------------------------
\* Command catalog: payload encoders and result decoders
\* ------------------------------------------------------------------------
\* static_cast<uint8_t>(v) of an int8_t v (two's complement)
I8ToU8(v) == (v + 256) % 256

\* a & b on bytes
RECURSIVE BitAnd(_, _)
BitAnd(a, b) ==
    IF a = 0 \/ b = 0 THEN 0
    ELSE (a % 2) * (b % 2) + 2 * BitAnd(a \div 2, b \div 2)

\* enum class CommandStatus : Success
CommandStatus_Success == 0

\* enum class MouseButton / UsbStringType values used as inputs
MouseButtons == {0, 1, 2}

UsbStringTypes == {0, 1, 2}

\* data of send_kb_general_data: ctrl, a zero byte, the six key codes
kb_general_payload(ctrl, keys) == <<ctrl, 0>> \o keys

\* data of send_kb_media_data
kb_media_payload(report_id, keycode) ==
    <<report_id, keycode % 256, (keycode \div 256) % 256>>

\* data of send_ms_abs_data: x and y are encoded as given
ms_abs_payload(button, x, y, wheel) ==
    <<2, button, x % 256, (x \div 256) % 256, y % 256, (y \div 256) % 256, I8ToU8(wheel)>>

\* data of send_ms_rel_data
ms_rel_payload(button, x_delta, y_delta, wheel) ==
    <<1, button, I8ToU8(x_delta), I8ToU8(y_delta), I8ToU8(wheel)>>

\* data of set_usb_string: type, static_cast<uint8_t>(str.size()), the text
usb_string_payload(type, str) == <<type, U8(Len(str))>> \o str

\* std::min(x, 4095) of move_to_absolute
Clamp4095(x) == IF x < 4095 THEN x ELSE 4095

\* data of move_to_absolute: clamped coordinates, no button, no wheel
move_abs_payload(x, y) == ms_abs_payload(0, Clamp4095(x), Clamp4095(y), 0)

\* static_cast<uint16_t>(n)
U16(n) == n % 65536

\* convert_screen_to_absolute: each axis is scaled in 32 bits (the product of
\* a uint16_t and 4095 is below 2^32, so uint32_t holds it exactly), cast to
\* uint16_t, and only then limited to 4095.
convert_screen_to_absolute(screen_x, screen_y, screen_width, screen_height) ==
    LET abs_x == U16((screen_x * 4095) \div screen_width)
        abs_y == U16((screen_y * 4095) \div screen_height)
    IN  <<Clamp4095(abs_x), Clamp4095(abs_y)>>

\* A send_hid_data size check that is off by one.
hid_too_large_OffByOne(data) == Len(data) > 65

\* send_hid_data: if (data.size() > 64) return false;
hid_too_large(data) == Len(data) > 64

\* A status test that takes any non-empty payload for success.
StatusOk_AnyStatus(r) == r.has /\ r.val # <<>>

\* r.has_value() && !r->empty() && r->at(0) == Success
StatusOk(r) == r.has /\ r.val # <<>> /\ r.val[1] = CommandStatus_Success

\* DeviceInfo of get_info as <<version_major, version_minor, usb_connected,
\* num_lock, caps_lock, scroll_lock, pc_sleeping>>, flags as 0/1.
\* version_major is (version >> 4) & 0x0F - 2, which C++ parses as
\* (version >> 4) & (0x0F - 2).
decode_info(r) ==
    LET version    == r[1]
        led_status == r[3]
        B(b)       == IF b THEN 1 ELSE 0
    IN  << BitAnd(version \div 16, 15 - 2),
           BitAnd(version, 15),
           B(r[2] = 1),
           B(BitAnd(led_status, 1) # 0),
           B(BitAnd(led_status, 2) # 0),
           B(BitAnd(led_status, 4) # 0),
           B(r[4] = 3) >>

\* The operations whose result is the status test of the response.
StatusOps == {"send_kb_general_data", "send_kb_media_data", "send_ms_abs_data",
              "send_ms_rel_data", "send_hid_data", "set_para_config",
              "set_usb_string", "set_default_config", "reset", "mouse_down",
              "mouse_up", "move_mouse", "scroll_wheel", "move_to_absolute",
              "hover"}

\* Operation results with a get_para_config that takes any payload of 50
\* bytes or more.
OpResult_ParaAtLeast50(name, r) ==
    IF name \in StatusOps THEN [has |-> StatusOk(r), val |-> <<>>]
    ELSE IF name = "get_info"
         THEN IF ~r.has \/ Len(r.val) < 8 THEN Nullopt ELSE Some(decode_info(r.val))
    ELSE IF name = "get_para_config"
         THEN IF ~r.has \/ Len(r.val) < 50 THEN Nullopt ELSE Some(SubSeq(r.val, 1, 50))
    ELSE r

\* What a public operation returns for send_command's result r: [has, val];
\* a bool result is has with an empty val.
OpResult(name, r) ==
    IF name \in StatusOps THEN [has |-> StatusOk(r), val |-> <<>>]
    ELSE IF name = "get_info"
         THEN IF ~r.has \/ Len(r.val) < 8 THEN Nullopt ELSE Some(decode_info(r.val))
    ELSE IF name = "get_para_config"
         THEN IF ~r.has \/ Len(r.val) # 50 THEN Nullopt ELSE Some(r.val)
    ELSE r      \* get_usb_string, read_hid_data: the bytes as they are

\* ------------------------------------------------------------------------
\* Command dispatcher
\* ------------------------------------------------------------------------
\* A send_command that returns once the frame is written.
SendCommandAfterWrite_NoRead(ec) == "return"

\* send_command after asio::write: if (ec) return std::nullopt; else sleep, read
SendCommandAfterWrite(ec) == IF ec THEN "return" ELSE "read"

\* read_response: std::vector<uint8_t> buffer(128)
ReadBufferSize == 128

\* read_response on what read_some gave: if (ec || len < 6) return nullopt
read_response(ec, bytes) ==
    IF ec \/ Len(bytes) < 6 THEN Nullopt ELSE Some(bytes)

\* A send_command that reads again when the read gave nothing.
SendCommandAfterRead_Retries(resp) == IF resp.has THEN "done" ELSE "await"

\* send_command after read_response: it returns whatever the read gave
SendCommandAfterRead(resp) == "done"

\* A send_command that takes the payload out of the response it read
\* without validating the response.
SendCommandResult_Unvalidated(resp, cmd) ==
    IF ~resp.has \/ Len(resp.val) = 6 THEN Nullopt
    ELSE Some(SubSeq(resp.val, 6, Len(resp.val) - 1))

\* A send_command that returns an empty payload as success.
SendCommandResult_KeepsEmpty(resp, cmd) ==
    IF ~resp.has THEN Nullopt ELSE validate_response(resp.val, cmd)

\* send_command from the response read on: validate, and an empty payload
\* is a failure
SendCommandResult(resp, cmd) ==
    IF ~resp.has THEN Nullopt
    ELSE LET payload == validate_response(resp.val, cmd)
         IN  IF ~payload.has \/ payload.val = <<>> THEN Nullopt ELSE payload

\* ------------------------------------------------------------------------
\* The device at the other end of the serial line
\* ------------------------------------------------------------------------
\* Payload of a successful reply to command cmd.
OkPayload(cmd) ==
    IF cmd = 1 THEN <<48, 1, 3, 0, 0, 0, 0, 0>>
    ELSE IF cmd = 8 THEN [i \in 1..50 |-> U8(3 * i)]
    ELSE IF cmd = 10 THEN <<3, 65, 66, 67>>
    ELSE <<CommandStatus_Success>>

\* enum class CommandStatus: Timeout (0xE1) and OperationFailed (0xE6), the
\* first and the last of the failure codes.
CommandStatus_Timeout == 225

CommandStatus_OperationFailed == 230

ReplyKinds == {"ok", "err", "err6", "empty", "badsum"}

\* The kinds of reply that differ in how send_command takes them.
PlainKinds == {"ok", "err", "empty", "badsum"}

\* The bytes the device sends in reply to command cmd. A reply carries the
\* command with bit 7 set, an error reply with bits 7 and 6 set.
Reply(cmd, kind) ==
    LET ok == make_frame(DEVICE_ADDR, cmd + 128, OkPayload(cmd))
    IN  CASE kind = "ok"     -> ok
          [] kind = "err"    -> make_frame(DEVICE_ADDR, cmd + 192, <<CommandStatus_Timeout>>)
          [] kind = "err6"   -> make_frame(DEVICE_ADDR, cmd + 192, <<CommandStatus_OperationFailed>>)
          [] kind = "empty"  -> make_frame(DEVICE_ADDR, cmd + 128, <<>>)
          [] kind = "badsum" -> [ok EXCEPT ![Len(ok)] = U8(ok[Len(ok)] + 1)]

\* Other payloads the device answers a read command with: info blocks with
\* other version bytes and a short one, parameter blocks that are not 50
\* bytes long, and strings that fill the read buffer and exceed it by one.
AltPayloads(cmd) ==
    IF cmd = 1 THEN {<<64, 1, 7, 3, 0, 0, 0, 0>>, <<16, 0, 0, 0, 0, 0, 0, 0>>,
                     <<48, 1, 3, 0, 0, 0, 0>>}
    ELSE IF cmd = 8 THEN {[i \in 1..n |-> U8(3 * i)] : n \in {1, 49, 51}}
    ELSE IF cmd = 10 THEN {[i \in 1..n |-> 65 + (i % 26)] : n \in {122, 123}}
    ELSE {}

\* All the replies the device may give to command cmd.
Replies(cmd) ==
    {Reply(cmd, kind) : kind \in ReplyKinds}
        \cup {make_frame(DEVICE_ADDR, cmd + 128, p) : p \in AltPayloads(cmd)}

\* ------------------------------------------------------------------------
\* Bounded inputs of the operations
\* ------------------------------------------------------------------------
\* Calls one caller makes in one run.
MaxCalls == 1

\* Calls all callers together make in one run.
MaxTotalCalls == 2

\* A read that returns before the whole reply has arrived gives this many bytes.
PartialLens == {3}

Callers == {"A", "B"}

CtrlKeys == {2, 128}

KeySets == {<<4, 0, 0, 0, 0, 0>>}

MediaKeycodes == {233, 4660}

\* <<x, y>> of the absolute mouse operations: inside, at and beyond 4095.
Coords == {<<0, 0>>, <<4095, 4095>>, <<4096, 100>>, <<100, 65535>>}

\* <<button, wheel>> of send_ms_abs_data
AbsButtonWheel == {<<0, 0>>, <<1, -1>>}

\* wheel_delta of scroll_wheel
WheelDeltas == {-1, 3}

\* The 50 raw_bytes of the ParaConfig handed to set_para_config.
ParaBlock == [i \in 1..50 |-> U8(5 * i)]

\* <<x_delta, y_delta>> of the relative mouse operations
Deltas == {<<5, -1>>, <<-128, 127>>}

\* Payload lengths of send_hid_data: around the limit of 64.
HidLens == {0, 1, 64, 65}

\* <<type, length of the text>> of set_usb_string: short texts, and texts
\* around the length at which the payload reaches 256 bytes.
UsbSetArgs == {<<0, 0>>, <<1, 16>>, <<2, 253>>, <<1, 254>>}

\* Arguments of the gestures: the button, the relative movement of drag and
\* the target of the absolute gestures.
GestureButtons == {1, 2}

GestureDeltas == {<<5, -1>>}

GestureCoords == {<<100, 200>>, <<4096, 100>>}

\* A text of n characters.
Text(n) == [i \in 1..n |-> 65 + (i % 26)]

\* Inputs of convert_screen_to_absolute: coordinates inside the screen, at
\* its edge and beyond it, for a tiny and an ordinary screen.
ScreenXs == {0, 1, 16, 17, 1919, 1920, 30728, 65535}

ScreenYs == {0, 1079, 1080, 65535}

ScreenWidths == {1, 1920}

ScreenHeights == {1080}

VARIABLES
    mPc,        \* mapper run: "input", "first" (one point converted), "done"
    screen_width,   \* screen_width of both conversions
    screen_height,  \* screen_height of both conversions
    p1,         \* <<screen_x, screen_y>> of the first conversion
    p2,         \* <<screen_x, screen_y>> of the second conversion
    abs1,       \* what the first conversion returned
    abs2,       \* what the second conversion returned
    cPc,        \* codec run: "input", "built", "mutated", "cut", then "validated",
                \* "dispatched", "cutvalidated" or "cutdispatched"
    cAddr,      \* addr argument of make_frame
    cCmd,       \* cmd argument of make_frame
    cData,      \* data argument of make_frame
    cExpected,  \* expected_cmd argument of validate_response
    cResp,      \* the frame built, then the bytes handed to validate_response
    cMut,       \* 1-based index of the byte changed, 0 when none
    cOut,       \* what validate_response returned
    callers,    \* the threads that call the controller in this run
    quota,      \* operations one caller starts in this run at most
    pc,         \* per caller: "idle", "write" (frame built), "await" (before the read),
                \* "done"; in a gesture also "gesture" (between calls) and "gdone"
    op,         \* per caller: the public operation in progress
    args,       \* per caller: its arguments, until the frame is written
    cmd,        \* per caller: the opcode handed to send_command
    frame,      \* per caller: the frame send_command built, until it is written
    io,         \* per caller: the transport calls of the current operation, in order
    sc,         \* per caller: what send_command returned
    rcv,        \* per caller: the bytes its read_some returned
    ret,        \* per caller: what the operation returned
    ncalls,     \* per caller: operations started
    inflight,   \* per caller: frames written whose read has not been issued
    gest,       \* per caller: the gesture in progress: its name, the primitive
                \* calls it has still to make, the primitives whose frame was written
    replied,    \* per caller: the frame the device sent in reply to the command
                \* of the call in progress, <<>> while it has sent none
    dev,        \* commands the device has received and not yet answered: opcode k,
                \* caller c, and cur, whether that call is still in progress
    rx          \* bytes the device has sent that no read has taken yet

codecVars == <<cPc, cAddr, cCmd, cData, cExpected, cResp, cMut, cOut>>

callVars == <<pc, op, args, cmd, frame, io, sc, rcv, ret, ncalls, inflight>>

ctlVars == <<callers, quota, callVars, gest, replied, dev, rx>>

mapVars == <<mPc, screen_width, screen_height, p1, p2, abs1, abs2>>

vars == <<codecVars, ctlVars, mapVars>>

\* ------------------------------------------------------------------------
\* Coordinate mapper runs
\* ------------------------------------------------------------------------
MapIdle ==
    /\ mPc = "input"
    /\ screen_width = 1
    /\ screen_height = 1
    /\ p1 = <<0, 0>>
    /\ p2 = <<0, 0>>
    /\ abs1 = <<0, 0>>
    /\ abs2 = <<0, 0>>

\* ------------------------------------------------------------------------
\* Codec runs
\* ------------------------------------------------------------------------
CodecIdle ==
    /\ cPc = "input"
    /\ cAddr = DEVICE_ADDR
    /\ cCmd = 1
    /\ cData = <<>>
    /\ cExpected = 1
    /\ cResp = <<>>
    /\ cMut = 0
    /\ cOut = Nullopt

\* No gesture in progress.
NoGesture == [name |-> "none", todo |-> <<>>, log |-> <<>>]

ControllerIdle(cs) ==
    /\ callers = cs
    /\ quota = MaxCalls
    /\ gest = [c \in Callers |-> NoGesture]
    /\ replied = [c \in Callers |-> <<>>]
    /\ pc = [c \in Callers |-> "idle"]
    /\ op = [c \in Callers |-> "none"]
    /\ args = [c \in Callers |-> <<>>]
    /\ cmd = [c \in Callers |-> 0]
    /\ frame = [c \in Callers |-> <<>>]
    /\ io = [c \in Callers |-> <<>>]
    /\ sc = [c \in Callers |-> Nullopt]
    /\ rcv = [c \in Callers |-> <<>>]
    /\ ret = [c \in Callers |-> Nullopt]
    /\ ncalls = [c \in Callers |-> 0]
    /\ inflight = [c \in Callers |-> 0]
    /\ dev = <<>>
    /\ rx = <<>>

CodecInit ==
    /\ cPc = "input"
    /\ cAddr \in Addrs
    /\ cCmd \in CmdBytes
    /\ cData \in Payloads
    /\ cExpected \in ExpectedCmds
    /\ cResp = <<>>
    /\ cMut = 0
    /\ cOut = Nullopt
    /\ ControllerIdle({})
    /\ MapIdle

\* make_frame(cAddr, cCmd, cData)
BuildFrame ==
    /\ cPc = "input"
    /\ cResp' = make_frame(cAddr, cCmd, cData)
    /\ cPc' = "built"
    /\ UNCHANGED <<cAddr, cCmd, cData, cExpected, cMut, cOut, ctlVars, mapVars>>

\* One byte of the built frame is changed, the checksum is not recomputed.
MutateByte ==
    /\ cPc = "built"
    /\ \E i \in 1..Len(cResp), d \in MutDeltas :
          /\ cResp' = [cResp EXCEPT ![i] = U8(cResp[i] + d)]
          /\ cMut' = i
    /\ cPc' = "mutated"
    /\ UNCHANGED <<cAddr, cCmd, cData, cExpected, cOut, ctlVars, mapVars>>

\* The response is cut short: only its first or its last n bytes, n < 6,
\* are handed on.
Truncate ==
    /\ cPc = "built"
    /\ \E n \in 0..5 :
          \/ cResp' = SubSeq(cResp, 1, n)
          \/ cResp' = SubSeq(cResp, Len(cResp) - n + 1, Len(cResp))
    /\ cPc' = "cut"
    /\ UNCHANGED <<cAddr, cCmd, cData, cExpected, cMut, cOut, ctlVars, mapVars>>

\* validate_response(cResp, cExpected)
Validate ==
    /\ cPc \in {"built", "mutated", "cut"}
    /\ cOut' = validate_response(cResp, cExpected)
    /\ cPc' = IF cPc = "cut" THEN "cutvalidated" ELSE "validated"
    /\ UNCHANGED <<cAddr, cCmd, cData, cExpected, cResp, cMut, ctlVars, mapVars>>

\* send_command(cExpected) from the point where its read returned cResp
\* without an error.
Dispatch ==
    /\ cPc \in {"built", "mutated", "cut"}
    /\ cOut' = SendCommandResult(read_response(FALSE, cResp), cExpected)
    /\ cPc' = IF cPc = "cut" THEN "cutdispatched" ELSE "dispatched"
    /\ UNCHANGED <<cAddr, cCmd, cData, cExpected, cResp, cMut, ctlVars, mapVars>>

CodecNext == BuildFrame \/ MutateByte \/ Truncate \/ Validate \/ Dispatch

SpecCodec == CodecInit /\ [][CodecNext]_vars

\* ------------------------------------------------------------------------
\* The controller: its public operations over send_command
\* ------------------------------------------------------------------------
Init == CodecIdle /\ MapIdle /\ ControllerIdle({"A"})

InitConc == CodecIdle /\ MapIdle /\ ControllerIdle(Callers)

\* Operation name(a) calls send_command(k, data): make_frame builds the frame
\* that asio::write is about to be handed.
Invoke(c, name, a, k, data) ==
    /\ op' = [op EXCEPT ![c] = name]
    /\ args' = [args EXCEPT ![c] = a]
    /\ cmd' = [cmd EXCEPT ![c] = k]
    /\ frame' = [frame EXCEPT ![c] = make_frame(DEVICE_ADDR, k, data)]
    /\ pc' = [pc EXCEPT ![c] = "write"]
    /\ UNCHANGED <<io, sc, rcv, ret, inflight, callers, quota, replied, dev, rx,
                   codecVars, mapVars>>

\* Caller c is free to start an operation of its own.
MayStart(c) ==
    /\ c \in callers
    /\ pc[c] = "idle"
    /\ ncalls[c] < quota
    /\ ncalls["A"] + ncalls["B"] < MaxTotalCalls

\* Caller c starts operation name(a), which calls send_command(k, data).
Call(c, name, a, k, data) ==
    /\ MayStart(c)
    /\ ncalls' = [ncalls EXCEPT ![c] = @ + 1]
    /\ Invoke(c, name, a, k, data)
    /\ UNCHANGED gest

\* asio::write(port_, frame, ec) and the test of ec: a written frame reaches
\* the device, which takes its opcode from the command byte; a failed write
\* ends the call. The arguments and the frame are not used after the write.
Write(c) ==
    /\ c \in callers
    /\ pc[c] = "write"
    /\ \E ec \in BOOLEAN :
          LET next == SendCommandAfterWrite(ec)
          IN  /\ io' = [io EXCEPT ![c] =
                          <<[ev |-> "w", n |-> IF ec THEN -1 ELSE Len(frame[c])]>>]
              /\ dev' = IF ec THEN dev
                        ELSE Append(dev, [k |-> frame[c][4] % 64, c |-> c, cur |-> TRUE])
              /\ gest' = [gest EXCEPT ![c].log =
                            IF gest[c].name = "none" \/ ec THEN @ ELSE Append(@, op[c])]
              /\ inflight' = [inflight EXCEPT ![c] = IF ec THEN @ ELSE @ + 1]
              /\ pc' = [pc EXCEPT ![c] = IF next = "read" THEN "await" ELSE "done"]
              /\ ret' = [ret EXCEPT ![c] = OpResult(op[c], Nullopt)]
    /\ args' = [args EXCEPT ![c] = <<>>]
    /\ frame' = [frame EXCEPT ![c] = <<>>]
    /\ UNCHANGED <<op, cmd, sc, rcv, ncalls, callers, quota, replied, rx, codecVars, mapVars>>

\* An operation that returns false before send_command is called.
LocalFail(c, name, a) ==
    /\ MayStart(c)
    /\ op' = [op EXCEPT ![c] = name]
    /\ args' = [args EXCEPT ![c] = a]
    /\ pc' = [pc EXCEPT ![c] = "done"]
    /\ ret' = [ret EXCEPT ![c] = [has |-> FALSE, val |-> <<>>]]
    /\ ncalls' = [ncalls EXCEPT ![c] = @ + 1]
    /\ UNCHANGED <<cmd, frame, io, sc, rcv, inflight, callers, quota, gest, replied, dev, rx,
                   codecVars, mapVars>>

get_info(c) == Call(c, "get_info", <<>>, 1, <<>>)

send_kb_general_data(c) ==
    \E ctrl \in CtrlKeys, keys \in KeySets :
        Call(c, "send_kb_general_data", <<ctrl, keys>>, 2, kb_general_payload(ctrl, keys))

send_kb_media_data(c) ==
    \E keycode \in MediaKeycodes :
        Call(c, "send_kb_media_data", <<2, keycode>>, 3, kb_media_payload(2, keycode))

send_ms_abs_data(c) ==
    \E bw \in AbsButtonWheel, xy \in Coords :
        Call(c, "send_ms_abs_data", <<bw[1], xy[1], xy[2], bw[2]>>, 4,
             ms_abs_payload(bw[1], xy[1], xy[2], bw[2]))

send_ms_rel_data(c) ==
    \E d \in Deltas :
        Call(c, "send_ms_rel_data", <<1, d[1], d[2], 0>>, 5, ms_rel_payload(1, d[1], d[2], 0))

send_hid_data(c) ==
    \E n \in HidLens :
        LET data == Pattern(n)
        IN  IF hid_too_large(data)
            THEN LocalFail(c, "send_hid_data", <<data>>)
            ELSE Call(c, "send_hid_data", <<data>>, 6, data)

\* read_hid_data: read_response() with no command written
read_hid_data(c) ==
    /\ MayStart(c)
    /\ op' = [op EXCEPT ![c] = "read_hid_data"]
    /\ pc' = [pc EXCEPT ![c] = "await"]
    /\ ncalls' = [ncalls EXCEPT ![c] = @ + 1]
    /\ UNCHANGED <<args, cmd, frame, io, sc, rcv, ret, inflight, callers, quota, gest, replied,
                   dev, rx, codecVars, mapVars>>

get_para_config(c) == Call(c, "get_para_config", <<>>, 8, <<>>)

set_para_config(c) == Call(c, "set_para_config", <<ParaBlock>>, 9, ParaBlock)

get_usb_string(c) ==
    \E type \in UsbStringTypes : Call(c, "get_usb_string", <<type>>, 10, <<type>>)

set_usb_string(c) ==
    \E a \in UsbSetArgs :
        Call(c, "set_usb_string", <<a[1], Text(a[2])>>, 11, usb_string_payload(a[1], Text(a[2])))

set_default_config(c) == Call(c, "set_default_config", <<>>, 12, <<>>)

reset(c) == Call(c, "reset", <<>>, 15, <<>>)

mouse_down(c) ==
    \E button \in MouseButtons \ {0} :
        Call(c, "mouse_down", <<button>>, 5, <<1, button, 0, 0, 0>>)

mouse_up(c) == Call(c, "mouse_up", <<1>>, 5, <<1, 0, 0, 0, 0>>)

move_mouse(c) ==
    \E d \in Deltas :
        Call(c, "move_mouse", d, 5, <<1, 0, I8ToU8(d[1]), I8ToU8(d[2]), 0>>)

scroll_wheel(c) ==
    \E w \in WheelDeltas :
        Call(c, "scroll_wheel", <<w>>, 5, <<1, 0, 0, 0, I8ToU8(w)>>)

move_to_absolute(c) ==
    \E xy \in Coords :
        Call(c, "move_to_absolute", xy, 4, move_abs_payload(xy[1], xy[2]))

hover(c) == Call(c, "hover", <<1000>>, 5, <<1, 0, 0, 0, 0>>)

\* A read_some that returns all the bytes waiting, whatever the buffer holds.
ReadLens_Unbounded(avail) == {avail} \cup {n \in PartialLens : n < avail}

\* What read_some can return when avail bytes are waiting: all of them up to
\* the buffer size, or fewer when it returns before the rest has arrived.
ReadLens(avail) ==
    {IF avail < ReadBufferSize THEN avail ELSE ReadBufferSize}
        \cup {n \in PartialLens : n < avail}

\* The second half of the call, from read_some on: read_response, then for
\* send_command validate_response and the empty-payload test, then the
\* operation's own decoding of the result.
FinishRead(c, ec, bytes, rest) ==
    LET resp == read_response(ec, bytes)
        raw  == op[c] = "read_hid_data"
        r    == IF raw THEN resp ELSE SendCommandResult(resp, cmd[c])
        next == IF raw THEN "done" ELSE SendCommandAfterRead(resp)
    IN  /\ rx' = rest
        /\ io' = [io EXCEPT ![c] = Append(@, [ev |-> "r", n |-> IF ec THEN -1 ELSE Len(bytes)])]
        /\ inflight' = [inflight EXCEPT ![c] = IF raw \/ @ = 0 THEN @ ELSE @ - 1]
        /\ pc' = [pc EXCEPT ![c] = next]
        /\ sc' = [sc EXCEPT ![c] = IF raw THEN @ ELSE r]
        /\ rcv' = [rcv EXCEPT ![c] = bytes]
        /\ ret' = [ret EXCEPT ![c] = OpResult(op[c], r)]
        /\ UNCHANGED <<op, args, cmd, frame, ncalls, callers, quota, gest, replied, dev,
                       codecVars, mapVars>>

\* read_some fails: the bytes waiting stay where they are.
ReadError(c) ==
    /\ c \in callers
    /\ pc[c] = "await"
    /\ FinishRead(c, TRUE, <<>>, rx)

\* read_some returns the first n bytes waiting; it blocks while there are none.
ReadSome(c) ==
    /\ c \in callers
    /\ pc[c] = "await"
    /\ rx # <<>>
    /\ \E n \in ReadLens(Len(rx)) :
          FinishRead(c, FALSE, SubSeq(rx, 1, n), SubSeq(rx, n + 1, Len(rx)))

\* The call of caller c is over: its locals are gone, and whatever the
\* device still sends for its command belongs to no call in progress.
Leave(c) ==
    /\ op' = [op EXCEPT ![c] = "none"]
    /\ args' = [args EXCEPT ![c] = <<>>]
    /\ cmd' = [cmd EXCEPT ![c] = 0]
    /\ frame' = [frame EXCEPT ![c] = <<>>]
    /\ io' = [io EXCEPT ![c] = <<>>]
    /\ sc' = [sc EXCEPT ![c] = Nullopt]
    /\ rcv' = [rcv EXCEPT ![c] = <<>>]
    /\ replied' = [replied EXCEPT ![c] = <<>>]
    /\ dev' = [i \in DOMAIN dev |->
                  IF dev[i].c = c THEN [dev[i] EXCEPT !.cur = FALSE] ELSE dev[i]]
    /\ UNCHANGED <<ncalls, inflight, callers, quota, rx, codecVars, mapVars>>

\* The operation returns to its caller.
Return(c) ==
    /\ c \in callers
    /\ pc[c] = "done"
    /\ gest[c].name = "none"
    /\ pc' = [pc EXCEPT ![c] = "idle"]
    /\ ret' = [ret EXCEPT ![c] = Nullopt]
    /\ Leave(c)
    /\ UNCHANGED gest

\* The device answers the oldest command it has received with one of the
\* given replies.
Answer(replies) ==
    /\ \E reply \in replies :
          /\ rx' = rx \o reply
          /\ replied' = IF Head(dev).cur THEN [replied EXCEPT ![Head(dev).c] = reply]
                        ELSE replied
    /\ dev' = Tail(dev)
    /\ UNCHANGED <<callVars, callers, quota, gest, codecVars, mapVars>>

\* The device answers the oldest command it has received.
DeviceAnswer ==
    /\ dev # <<>>
    /\ Answer(Replies(Head(dev).k))

\* The device answers the oldest command it has received with a reply of one
\* of the plain kinds.
DeviceAnswerPlain ==
    /\ dev # <<>>
    /\ Answer({Reply(Head(dev).k, kind) : kind \in PlainKinds})

\* The device drops a command without answering.
DeviceSilent ==
    /\ dev # <<>>
    /\ dev' = Tail(dev)
    /\ UNCHANGED <<callVars, callers, quota, gest, replied, rx, codecVars, mapVars>>

Next ==
    \/ \E c \in Callers :
          \/ get_info(c)
          \/ send_kb_general_data(c)
          \/ send_kb_media_data(c)
          \/ send_ms_abs_data(c)
          \/ send_ms_rel_data(c)
          \/ send_hid_data(c)
          \/ read_hid_data(c)
          \/ get_para_config(c)
          \/ set_para_config(c)
          \/ get_usb_string(c)
          \/ set_usb_string(c)
          \/ set_default_config(c)
          \/ reset(c)
          \/ mouse_down(c)
          \/ mouse_up(c)
          \/ move_mouse(c)
          \/ scroll_wheel(c)
          \/ move_to_absolute(c)
          \/ hover(c)
          \/ Write(c)
          \/ ReadError(c)
          \/ ReadSome(c)
          \/ Return(c)
    \/ DeviceAnswer
    \/ DeviceSilent

Spec == Init /\ [][Next]_vars

\* Two threads sharing one controller, each calling get_info, mouse_down or
\* mouse_up: one opcode of its own and one opcode in common.
NextConc ==
    \/ \E c \in Callers :
          \/ get_info(c)
          \/ mouse_down(c)
          \/ mouse_up(c)
          \/ Write(c)
          \/ ReadError(c)
          \/ ReadSome(c)
          \/ Return(c)
    \/ DeviceAnswerPlain
    \/ DeviceSilent

SpecConc == InitConc /\ [][NextConc]_vars

\* ------------------------------------------------------------------------
\* Gestures: sequences of primitive operations
\* ------------------------------------------------------------------------
\* The opcode and the data the primitive operation name(a) hands to
\* send_command.
PrimCommand(name, a) ==
    CASE name = "mouse_down"       -> [k |-> 5, data |-> <<1, a[1], 0, 0, 0>>]
      [] name = "mouse_up"         -> [k |-> 5, data |-> <<1, 0, 0, 0, 0>>]
      [] name = "move_mouse"       -> [k |-> 5, data |-> <<1, 0, I8ToU8(a[1]), I8ToU8(a[2]), 0>>]
      [] name = "move_to_absolute" -> [k |-> 4, data |-> move_abs_payload(a[1], a[2])]

PrimCall(name, a) == [name |-> name, a |-> a]

\* The primitive calls of each gesture, in the order the gesture makes them.
\* Every gesture returns false as soon as one of its calls returns false and
\* otherwise what its last call returns; the sleeps between the calls change
\* no state.
click_calls(button) ==
    <<PrimCall("mouse_down", <<button>>), PrimCall("mouse_up", <<button>>)>>

double_click_calls(button) == click_calls(button) \o click_calls(button)

drag_calls(button, x_delta, y_delta) ==
    <<PrimCall("mouse_down", <<button>>), PrimCall("move_mouse", <<x_delta, y_delta>>),
      PrimCall("mouse_up", <<button>>)>>

click_at_absolute_calls(x, y, button) ==
    <<PrimCall("move_to_absolute", <<x, y>>)>> \o click_calls(button)

drag_absolute_calls(start_x, start_y, end_x, end_y, button) ==
    <<PrimCall("move_to_absolute", <<start_x, start_y>>), PrimCall("mouse_down", <<button>>),
      PrimCall("move_to_absolute", <<end_x, end_y>>), PrimCall("mouse_up", <<button>>)>>

\* Caller c starts gesture name, which is to make the primitive calls.
Gesture(c, name, calls) ==
    /\ MayStart(c)
    /\ ncalls' = [ncalls EXCEPT ![c] = @ + 1]
    /\ gest' = [gest EXCEPT ![c] = [name |-> name, todo |-> calls, log |-> <<>>]]
    /\ pc' = [pc EXCEPT ![c] = "gesture"]
    /\ UNCHANGED <<op, args, cmd, frame, io, sc, rcv, ret, inflight, callers, quota, replied,
                   dev, rx, codecVars, mapVars>>

click(c) == \E button \in GestureButtons : Gesture(c, "click", click_calls(button))

double_click(c) ==
    \E button \in GestureButtons : Gesture(c, "double_click", double_click_calls(button))

drag(c) ==
    \E button \in GestureButtons, d \in GestureDeltas :
        Gesture(c, "drag", drag_calls(button, d[1], d[2]))

click_at_absolute(c) ==
    \E button \in GestureButtons, xy \in GestureCoords :
        Gesture(c, "click_at_absolute", click_at_absolute_calls(xy[1], xy[2], button))

drag_absolute(c) ==
    \E button \in GestureButtons, xy \in GestureCoords :
        Gesture(c, "drag_absolute", drag_absolute_calls(0, 0, xy[1], xy[2], button))

\* right_click_menu: click(MouseButton::Right), then a sleep
right_click_menu(c) == Gesture(c, "right_click_menu", click_calls(2))

\* drag_select: drag_absolute(x1, y1, x2, y2, MouseButton::Left)
drag_select(c) ==
    \E xy \in GestureCoords :
        Gesture(c, "drag_select", drag_absolute_calls(0, 0, xy[1], xy[2], 1))

\* The gesture makes its next primitive call.
GestureCall(c) ==
    /\ c \in callers
    /\ pc[c] = "gesture"
    /\ LET call == Head(gest[c].todo)
           pcmd == PrimCommand(call.name, call.a)
       IN  Invoke(c, call.name, call.a, pcmd.k, pcmd.data)
    /\ gest' = [gest EXCEPT ![c].todo = Tail(@)]
    /\ UNCHANGED ncalls

\* The primitive call returns to the gesture: on false, and after the last
\* call, the gesture has its result; otherwise it goes on.
GestureResume(c) ==
    /\ c \in callers
    /\ pc[c] = "done"
    /\ gest[c].name # "none"
    /\ LET goOn == ret[c].has /\ gest[c].todo # <<>>
       IN  /\ pc' = [pc EXCEPT ![c] = IF goOn THEN "gesture" ELSE "gdone"]
           /\ ret' = [ret EXCEPT ![c] = IF goOn THEN Nullopt ELSE [has |-> ret[c].has, val |-> <<>>]]
    /\ Leave(c)
    /\ UNCHANGED gest

\* The gesture returns to its caller.
GestureReturn(c) ==
    /\ c \in callers
    /\ pc[c] = "gdone"
    /\ pc' = [pc EXCEPT ![c] = "idle"]
    /\ ret' = [ret EXCEPT ![c] = Nullopt]
    /\ gest' = [gest EXCEPT ![c] = NoGesture]
    /\ UNCHANGED <<op, args, cmd, frame, io, sc, rcv, ncalls, inflight, callers, quota, replied,
                   dev, rx, codecVars, mapVars>>

NextGesture ==
    \/ \E c \in Callers :
          \/ click(c)
          \/ double_click(c)
          \/ drag(c)
          \/ click_at_absolute(c)
          \/ drag_absolute(c)
          \/ right_click_menu(c)
          \/ drag_select(c)
          \/ GestureCall(c)
          \/ Write(c)
          \/ ReadError(c)
          \/ ReadSome(c)
          \/ GestureResume(c)
          \/ GestureReturn(c)
    \/ DeviceAnswer
    \/ DeviceSilent

SpecGesture == Init /\ [][NextGesture]_vars

\* One thread making calls one after the other, as many as all callers
\* together make in a run, and taking the same steps: get_info, mouse_down or
\* mouse_up.
InitSeq ==
    /\ CodecIdle
    /\ MapIdle
    /\ callers = {"A"}
    /\ quota = MaxTotalCalls
    /\ pc = [c \in Callers |-> "idle"]
    /\ op = [c \in Callers |-> "none"]
    /\ args = [c \in Callers |-> <<>>]
    /\ cmd = [c \in Callers |-> 0]
    /\ frame = [c \in Callers |-> <<>>]
    /\ io = [c \in Callers |-> <<>>]
    /\ sc = [c \in Callers |-> Nullopt]
    /\ rcv = [c \in Callers |-> <<>>]
    /\ ret = [c \in Callers |-> Nullopt]
    /\ ncalls = [c \in Callers |-> 0]
    /\ inflight = [c \in Callers |-> 0]
    /\ gest = [c \in Callers |-> NoGesture]
    /\ replied = [c \in Callers |-> <<>>]
    /\ dev = <<>>
    /\ rx = <<>>

SpecSeq == InitSeq /\ [][NextConc]_vars

\* ------------------------------------------------------------------------
\* Two conversions for the same screen
\* ------------------------------------------------------------------------
InitMap ==
    /\ mPc = "input"
    /\ screen_width \in ScreenWidths
    /\ screen_height \in ScreenHeights
    /\ p1 \in ScreenXs \X ScreenYs
    /\ p2 \in ScreenXs \X ScreenYs
    /\ abs1 = <<0, 0>>
    /\ abs2 = <<0, 0>>
    /\ CodecIdle
    /\ ControllerIdle({})

\* convert_screen_to_absolute(p1.x, p1.y, screen_width, screen_height)
ConvertFirst ==
    /\ mPc = "input"
    /\ abs1' = convert_screen_to_absolute(p1[1], p1[2], screen_width, screen_height)
    /\ mPc' = "first"
    /\ UNCHANGED <<screen_width, screen_height, p1, p2, abs2, codecVars, ctlVars>>

\* convert_screen_to_absolute(p2.x, p2.y, screen_width, screen_height)
ConvertSecond ==
    /\ mPc = "first"
    /\ abs2' = convert_screen_to_absolute(p2[1], p2[2], screen_width, screen_height)
    /\ mPc' = "done"
    /\ UNCHANGED <<screen_width, screen_height, p1, p2, abs1, codecVars, ctlVars>>

NextMap == ConvertFirst \/ ConvertSecond

SpecMap == InitMap /\ [][NextMap]_vars

\* ========================================================================
\* Properties
\* ========================================================================
\* The sum of s[lo..hi] reduced modulo 256 at every addition.
RECURSIVE SumMod256(_, _, _)
SumMod256(s, lo, hi) ==
    IF lo > hi THEN 0
    ELSE IF lo = hi THEN s[lo] % 256
    ELSE LET mid == (lo + hi) \div 2
         IN  (SumMod256(s, lo, mid) + SumMod256(s, mid + 1, hi)) % 256

\* The bytes of frame f between the length byte and the checksum.
PayloadOf(f) == SubSeq(f, 6, Len(f) - 1)

\* A codec run that validated the frame as built, for the device address and
\* a 6-bit command expected back, with a payload of at most 249 bytes.
CleanRun ==
    /\ cPc = "validated"
    /\ cAddr = DEVICE_ADDR
    /\ cCmd \in 0..63
    /\ cExpected = cCmd
    /\ Len(cData) <= 249

\* C1: validating the frame make_frame built for address 0x00, a command in
\* 0..63 and a payload of 0..249 bytes, against that command, succeeds and
\* returns exactly the payload.
C1_RoundTrip == (CleanRun /\ cMut = 0) => cOut = Some(cData)

C1_Witness ==
    CleanRun /\ cMut = 0 /\ Len(cData) = 249 /\ cOut.has /\ Len(cOut.val) = 249

\* C2 as stated: the last byte of every frame make_frame returns is the sum
\* of all its other bytes modulo 256, and address 0x00, command 0x01 and no
\* payload give 57 AB 00 01 00 58.
C2_ChecksumExample58 ==
    cPc = "built" =>
        /\ Len(cResp) = Len(cData) + 6
        /\ cResp[Len(cResp)] = SumMod256(cResp, 1, Len(cResp) - 1)
        /\ (cAddr = 0 /\ cCmd = 1 /\ cData = <<>>) => cResp = <<87, 171, 0, 1, 0, 88>>

\* C2 as amended: the last byte of every frame make_frame returns is the sum
\* of all its other bytes modulo 256; address 0x00, command 0x01 and no
\* payload give 57 AB 00 01 00 03 (0x57 + 0xAB + 0x01 = 0x103).
C2_Checksum ==
    cPc = "built" =>
        /\ Len(cResp) = Len(cData) + 6
        /\ cResp[Len(cResp)] = SumMod256(cResp, 1, Len(cResp) - 1)
        /\ (cAddr = 0 /\ cCmd = 1 /\ cData = <<>>) => cResp = <<87, 171, 0, 1, 0, 3>>

C2_Witness ==
    cPc = "built" /\ cAddr = 0 /\ cCmd = 1 /\ cData = <<>> /\ cResp[6] = 3

\* C3: a frame built for address 0x00, a command in 0..63 and a payload of
\* 0..249 bytes, with exactly one byte changed and the checksum not
\* recomputed, is rejected by validate_response whichever byte it is.
C3_Rejection == (CleanRun /\ cMut # 0) => cOut = Nullopt

C3_Witness ==
    /\ CleanRun
    /\ Len(cData) = 249
    /\ cMut = Len(cResp)
    /\ cResp[cMut] # make_frame(cAddr, cCmd, cData)[cMut]
    /\ cOut = Nullopt

\* C6: a frame with the sentinels, address 0x00, a length byte equal to its
\* payload size and a correct checksum is accepted exactly when the low 6
\* bits of its command byte equal the expected command, whatever its upper
\* two bits, and then the payload is returned.
C6_LowSixBits ==
    (cPc = "validated" /\ cMut = 0 /\ cAddr = DEVICE_ADDR /\ Len(cData) <= 255) =>
        /\ cOut.has <=> (cCmd % 64 = cExpected)
        /\ cOut.has => cOut.val = cData

C6_Witness ==
    /\ cPc = "validated"
    /\ cMut = 0
    /\ cAddr = DEVICE_ADDR
    /\ cCmd = 193
    /\ cExpected = 1
    /\ cOut = Some(cData)

\* The operation of caller c has called send_command.
InSendCommand(c) == cmd[c] # 0

\* C4 as stated: the dispatcher serializes concurrent callers, so no caller
\* writes a command while another caller's command is written and not yet read.
C4_Serialized == Cardinality({c \in Callers : inflight[c] > 0}) <= 1

\* C4 as amended: send_command is synchronous for its caller. A caller has
\* at most one command written and not yet read, and none once its call
\* has ended; callers on different threads are not serialized.
C4_OnePerCaller ==
    \A c \in Callers :
        /\ inflight[c] <= 1
        /\ pc[c] \in {"idle", "write", "done"} => inflight[c] = 0

C4_Witness ==
    /\ pc["A"] = "await" /\ inflight["A"] = 1
    /\ pc["B"] = "await" /\ inflight["B"] = 1

\* C5: a send_command call writes one frame, then reads at most once, and
\* only if the write succeeded; a failed or short read fails the call with
\* no further transport call.
C5_NoRetry ==
    \A c \in Callers : InSendCommand(c) =>
        /\ pc[c] = "write" => io[c] = <<>>
        /\ pc[c] = "await" => Len(io[c]) = 1 /\ io[c][1].ev = "w" /\ io[c][1].n >= 6
        /\ pc[c] = "done" =>
              /\ Len(io[c]) \in {1, 2}
              /\ io[c][1].ev = "w"
              /\ Len(io[c]) = 1 <=> io[c][1].n = -1
              /\ Len(io[c]) = 2 => io[c][2].ev = "r"
              /\ (Len(io[c]) = 2 /\ io[c][2].n < 6) => ~sc[c].has

C5_Witness ==
    /\ pc["A"] = "done"
    /\ InSendCommand("A")
    /\ Len(io["A"]) = 2
    /\ io["A"][2].n \in 1..5
    /\ ~sc["A"].has

\* C7 as stated: the payload send_ms_abs_data hands to send_command carries
\* min(x, 4095) and min(y, 4095).
C7_AbsClamped ==
    \A c \in Callers : (pc[c] = "write" /\ op[c] = "send_ms_abs_data") =>
        LET X == IF args[c][2] < 4095 THEN args[c][2] ELSE 4095
            Y == IF args[c][3] < 4095 THEN args[c][3] ELSE 4095
        IN  /\ cmd[c] = 4
            /\ PayloadOf(frame[c]) =
                  <<2, args[c][1], X % 256, X \div 256, Y % 256, Y \div 256,
                    (args[c][4] + 256) % 256>>

\* C8 as stated: the length byte of every frame an operation writes is the
\* number of payload bytes between it and the checksum.
C8_LengthByte ==
    \A c \in Callers : pc[c] = "write" => frame[c][5] = Len(frame[c]) - 6

\* C9: send_hid_data with more than 64 bytes fails with no transport call;
\* with 0..64 bytes it writes one frame, opcode 0x06, payload as given.
C9_HidLimit ==
    \A c \in Callers : op[c] = "send_hid_data" =>
        /\ (pc[c] = "done" /\ ~InSendCommand(c)) =>
              Len(args[c][1]) > 64 /\ io[c] = <<>> /\ ~ret[c].has
        /\ pc[c] = "write" =>
              /\ Len(args[c][1]) <= 64
              /\ io[c] = <<>>
              /\ frame[c][4] = 6
              /\ PayloadOf(frame[c]) = args[c][1]
        /\ pc[c] = "await" => Len(io[c]) = 1 /\ io[c][1].ev = "w"

C9_Witness ==
    /\ op["A"] = "send_hid_data"
    /\ pc["A"] = "done"
    /\ Len(args["A"][1]) = 65
    /\ io["A"] = <<>>
    /\ ~ret["A"].has

\* The bytes r pass every check of a response to command k.
WellFormed(r, k) ==
    /\ Len(r) >= 6
    /\ r[1] = 87 /\ r[2] = 171
    /\ r[3] = 0
    /\ r[4] % 64 = k
    /\ r[5] = Len(r) - 6
    /\ r[Len(r)] = SumMod256(r, 1, Len(r) - 1)

\* C10: when the response send_command read passes every check and declares
\* length 0, send_command fails; every payload it returns has a byte.
C10_EmptyIsFailure ==
    \A c \in Callers : (pc[c] = "done" /\ InSendCommand(c)) =>
        /\ (WellFormed(rcv[c], cmd[c]) /\ rcv[c][5] = 0) => ~sc[c].has
        /\ sc[c].has => Len(sc[c].val) >= 1

C10_Witness ==
    /\ pc["A"] = "done"
    /\ InSendCommand("A")
    /\ WellFormed(rcv["A"], cmd["A"])
    /\ rcv["A"][5] = 0
    /\ ~sc["A"].has

\* The operations that change the state of the device or of the host.
MutatingOps == {"send_kb_general_data", "send_kb_media_data", "send_ms_abs_data",
                "send_ms_rel_data", "send_hid_data", "set_para_config",
                "set_usb_string", "set_default_config", "reset"}

\* C11: a mutating operation that called send_command returns true exactly
\* when send_command returned a payload with a first byte 0x00; a reply that
\* passes every check and carries a non-zero status, 0xE1 or 0xE6 alike,
\* gives false, a status of 0x00 gives true.
C11_UniformSuccess ==
    \A c \in Callers : (pc[c] = "done" /\ op[c] \in MutatingOps /\ InSendCommand(c)) =>
        /\ ret[c].has <=> (sc[c].has /\ Len(sc[c].val) >= 1 /\ sc[c].val[1] = 0)
        /\ ret[c].val = <<>>
        /\ (WellFormed(rcv[c], cmd[c]) /\ Len(rcv[c]) >= 7) => (ret[c].has <=> rcv[c][6] = 0)

C11_Witness ==
    /\ pc["A"] = "done"
    /\ op["A"] = "reset"
    /\ WellFormed(rcv["A"], cmd["A"])
    /\ rcv["A"][4] = 207
    /\ rcv["A"][6] = 230
    /\ ~ret["A"].has

\* C12 as stated: for every payload of at least 8 bytes that send_command
\* returned to get_info, version_major is the upper nibble of byte 0 less 2
\* (as the uint8_t field holds it) and version_minor is the lower nibble.
C12_MajorVersion ==
    \A c \in Callers :
        (pc[c] = "done" /\ op[c] = "get_info" /\ sc[c].has /\ Len(sc[c].val) >= 8) =>
            /\ ret[c].has
            /\ ret[c].val[1] = (((sc[c].val[1] \div 16) % 16) - 2) % 256
            /\ ret[c].val[2] = sc[c].val[1] % 16

\* C13 as stated: for a non-zero screen size, a conversion of a point that
\* is not to the left of (not above) another returns an abs_x (abs_y) that
\* is not smaller, also when the point lies beyond the screen.
C13_Monotone ==
    mPc = "done" =>
        /\ p1[1] <= p2[1] => abs1[1] <= abs2[1]
        /\ p1[2] <= p2[2] => abs1[2] <= abs2[2]

\* A codec run whose frame, built for the device address, a 6-bit command
\* expected back and a payload of at most 249 bytes, had one byte changed
\* before validate_response or send_command took it.
MutatedRun ==
    /\ cPc \in {"validated", "dispatched"}
    /\ cMut # 0
    /\ cAddr = DEVICE_ADDR
    /\ cCmd \in 0..63
    /\ cExpected = cCmd
    /\ Len(cData) <= 249

\* The error kind named for a change of byte i of the frame.
ErrorKindOf(i) ==
    IF i \in {1, 2} THEN "BadHeader"
    ELSE IF i = 3 THEN "BadAddress"
    ELSE IF i = 4 /\ cResp[4] % 64 # cCmd % 64 THEN "CommandMismatch"
    ELSE IF i = 5 THEN "LengthMismatch"
    ELSE "ChecksumMismatch"

\* C14 as stated: the failure validate_response and send_command report
\* for a changed byte names the check that failed: BadHeader, BadAddress,
\* CommandMismatch, LengthMismatch or ChecksumMismatch.
C14_Distinguishable ==
    MutatedRun =>
        /\ ~cOut.has
        /\ "err" \in DOMAIN cOut
        /\ cOut.err = ErrorKindOf(cMut)

\* C14 as amended: whichever byte was changed (header, address, command,
\* length, payload or checksum), validate_response and send_command report
\* the one and the same failure, an absent result with nothing in it that
\* tells the checks apart.
C14_OneFailure == MutatedRun => (cOut = Nullopt /\ DOMAIN cOut = {"has", "val"})

C14_Witness ==
    /\ MutatedRun
    /\ cPc = "dispatched"
    /\ cMut = 3
    /\ Len(cData) >= 1
    /\ cOut = Nullopt

\* C16: a response of fewer than 6 bytes is rejected whatever it holds, by
\* validate_response and by send_command whose read returned it.
C16_Truncation ==
    cPc \in {"cutvalidated", "cutdispatched"} => (Len(cResp) < 6 /\ cOut = Nullopt)

C16_Witness ==
    /\ cPc = "cutvalidated"
    /\ Len(cResp) = 5
    /\ cResp[1] = FRAME_HEAD_1 /\ cResp[2] = FRAME_HEAD_2
    /\ cResp[5] = 0
    /\ cOut = Nullopt

\* C15: get_para_config returns a ParaConfig exactly when send_command(0x08)
\* returned a payload of 50 bytes, and raw_bytes is then that payload; a
\* valid response that declares another length gives failure.
C15_ParaLength ==
    \A c \in Callers : (pc[c] = "done" /\ op[c] = "get_para_config") =>
        /\ cmd[c] = 8
        /\ ret[c].has <=> (sc[c].has /\ Len(sc[c].val) = 50)
        /\ ret[c].has => ret[c].val = sc[c].val
        /\ WellFormed(rcv[c], 8) => (ret[c].has <=> rcv[c][5] = 50)

C15_Witness ==
    /\ pc["A"] = "done"
    /\ op["A"] = "get_para_config"
    /\ WellFormed(rcv["A"], 8)
    /\ rcv["A"][5] = 51
    /\ sc["A"].has
    /\ ~ret["A"].has

\* C19: send_command never returns a payload of more than 122 bytes, and a
\* device reply that is a valid frame declaring 123 bytes or more, of which
\* the read returns the first 128, makes send_command fail.
C19_PayloadCeiling ==
    \A c \in Callers : (pc[c] = "done" /\ InSendCommand(c)) =>
        /\ Len(rcv[c]) <= 128
        /\ sc[c].has => Len(sc[c].val) <= 122
        /\ (Len(rcv[c]) = 128 /\ rcv[c][5] >= 123) => ~sc[c].has

C19_Witness ==
    /\ pc["A"] = "done"
    /\ op["A"] = "get_usb_string"
    /\ Len(rcv["A"]) = 128
    /\ SubSeq(rcv["A"], 1, 5) = <<87, 171, 0, 138, 123>>
    /\ Len(rx) = 1
    /\ ~sc["A"].has

\* Sequence a ends sequence b.
IsSuffix(a, b) == Len(a) <= Len(b) /\ SubSeq(b, Len(b) - Len(a) + 1, Len(b)) = a

\* C17 as stated: what a send_command call returns depends on the device's
\* reply to its own command only. When that reply is a valid response with a
\* payload and the read returned it, as the last of its bytes, the call
\* returns its payload; and a payload the call returns is the payload of the
\* reply to its own command.
C17_Independent ==
    \A c \in Callers : (pc[c] = "done" /\ InSendCommand(c) /\ Len(io[c]) = 2) =>
        /\ (/\ WellFormed(replied[c], cmd[c])
            /\ Len(replied[c]) >= 7
            /\ IsSuffix(replied[c], rcv[c])) => sc[c] = Some(PayloadOf(replied[c]))
        /\ sc[c].has => (replied[c] # <<>> /\ sc[c].val = PayloadOf(replied[c]))

\* The gestures that press a button.
PressingGestures == {"click", "double_click", "drag", "click_at_absolute",
                     "drag_absolute", "drag_select"}

\* C18 as stated: when a gesture returns, every button-press report it has
\* written (mouse_down) is followed by a release report it has written
\* (mouse_up).
C18_PressReleased ==
    \A c \in Callers : (pc[c] = "gdone" /\ gest[c].name \in PressingGestures) =>
        \A i \in DOMAIN gest[c].log :
            gest[c].log[i] = "mouse_down" =>
                \E j \in (i + 1)..Len(gest[c].log) : gest[c].log[j] = "mouse_up"

====
